---- MODULE Spec2Model ----
(***************************************************************************)
(* Model of the test runner of the Swift extension (class TestRunner):     *)
(* the plan builder (createTestLists), the run handler (runHandler,        *)
(* runSession, debugSession) and the two output parsers                    *)
(* (parseResultDarwin, parseResultNonDarwin).                              *)
(***************************************************************************)
EXTENDS Integers, Sequences, FiniteSets, TLC

VARIABLES
    tree,             \* the test items of controller.items (a parent-closed set of nodes)
    include,          \* request.include, in order
    exclude,          \* request.exclude
    pc,               \* where the run is
    testItems,        \* this.testItems
    testArgs,         \* this.testArgs
    platform,         \* process.platform: "darwin" or "linux"
    currentTestItem,  \* this.currentTestItem ("none" when undefined)
    testRun,          \* what this.testRun has been told
    nchunks,          \* chunks of output parsed so far
    shouldDebug,      \* runHandler's shouldDebug
    cancelled,        \* token.isCancellationRequested
    cancelAt,         \* history: where the run was when cancellation was requested
    exitCode,         \* the result of the build: pending, zero, nonzero, undefined, threw
    proc,             \* the child process of runSession: none, running, exited
    session,          \* the debug session of debugSession: none, started, terminated
    listeners,        \* the listeners of debugSession that are registered
    reads,            \* readFile calls of terminate handlers not yet completed
    promise,          \* the promise debugSession returns: none, returned (resolved with
                      \* no launch configuration), pending, resolved, rejected
    removed,          \* asyncfs.rm calls on the output file
    caught            \* history: what the catch block of runHandler caught

parserVars == <<testItems, currentTestItem, testRun, nchunks>>
requestVars == <<tree, include, exclude, platform, shouldDebug>>
debugVars == <<session, listeners, reads, promise, removed>>
vars == <<tree, include, exclude, pc, testItems, testArgs, platform,
          currentTestItem, testRun, nchunks, shouldDebug, cancelled, cancelAt, caught,
          exitCode, proc, session, listeners, reads, promise, removed, caught>>

(***************************************************************************)
(* Bounds                                                                  *)
(***************************************************************************)
MaxInclude == 2
MaxExclude == 2
MaxLines == 2       \* lines in one chunk of output
MaxChunks == 2      \* chunks of output in one run
MaxTerminates == 2  \* terminate events of debug sessions in one run

(***************************************************************************)
(* The test tree: targets, test case classes, test methods.  Ids are       *)
(* sequences of characters, "Target.Class/method", as the parsers build    *)
(* them.  A.Fo is a test case whose id is a prefix of the id of A.Foo.     *)
(***************************************************************************)
Nodes == {"A", "B", "A.Fo", "A.Foo", "A.Foo/bar", "A.Foo/baz", "A.Foo/bar/x", "B.Foo", "B.Foo/bar"}

ParentOf(n) ==
    CASE n = "A.Fo"        -> "A"
      [] n = "A.Foo"       -> "A"
      [] n = "A.Foo/bar"   -> "A.Foo"
      [] n = "A.Foo/baz"   -> "A.Foo"
      [] n = "A.Foo/bar/x" -> "A.Foo/bar"
      [] n = "B.Foo"       -> "B"
      [] n = "B.Foo/bar"   -> "B.Foo"
      [] OTHER             -> "none"

AllChildrenOf(n) ==
    CASE n = "A"         -> <<"A.Fo", "A.Foo">>
      [] n = "A.Foo"     -> <<"A.Foo/bar", "A.Foo/baz">>
      [] n = "A.Foo/bar" -> <<"A.Foo/bar/x">>
      [] n = "B"         -> <<"B.Foo">>
      [] n = "B.Foo"     -> <<"B.Foo/bar">>
      [] OTHER           -> <<>>

IdOf(n) ==
    CASE n = "A"           -> <<"A">>
      [] n = "B"           -> <<"B">>
      [] n = "A.Fo"        -> <<"A", ".", "F", "o">>
      [] n = "A.Foo"       -> <<"A", ".", "F", "o", "o">>
      [] n = "A.Foo/bar"   -> <<"A", ".", "F", "o", "o", "/", "b", "a", "r">>
      [] n = "A.Foo/baz"   -> <<"A", ".", "F", "o", "o", "/", "b", "a", "z">>
      [] n = "A.Foo/bar/x" -> <<"A", ".", "F", "o", "o", "/", "b", "a", "r", "/", "x">>
      [] n = "B.Foo"       -> <<"B", ".", "F", "o", "o">>
      [] n = "B.Foo/bar"   -> <<"B", ".", "F", "o", "o", "/", "b", "a", "r">>

LabelOf(n) ==
    CASE n = "A" -> <<"A">>
      [] n = "B" -> <<"B">>
      [] OTHER   -> IdOf(n)

AllRoots == <<"A", "B">>

\* a tree holds the parent of each of its nodes
IsTree(t) == \A n \in t : ParentOf(n) = "none" \/ ParentOf(n) \in t

Trees == {t \in SUBSET Nodes : IsTree(t)}

\* test.children and controller.items, in the order forEach visits them
Children(t, n) == SelectSeq(AllChildrenOf(n), LAMBDA c : c \in t)
Roots(t) == SelectSeq(AllRoots, LAMBDA c : c \in t)

\* test.parent && !test.parent?.parent
IsTestCase(n) == ParentOf(n) # "none" /\ ParentOf(ParentOf(n)) = "none"

\* String.prototype.startsWith and endsWith
StartsWith(s, p) == Len(p) <= Len(s) /\ SubSeq(s, 1, Len(p)) = p
EndsWith(s, p) == Len(p) <= Len(s) /\ SubSeq(s, Len(s) - Len(p) + 1, Len(s)) = p

Range(s) == {s[i] : i \in DOMAIN s}

(***************************************************************************)
(* createTestLists                                                         *)
(***************************************************************************)
\* the queue the request starts from
InitialQueue(t, inc) == IF Len(inc) > 0 THEN inc ELSE Roots(t)

\* the prefix test the other way round: an excluded id that the id of the
\* test case starts with
IncludesExcluded_reversed(exc, test) == \E item \in exc : StartsWith(IdOf(test), IdOf(item))

\* this.request.exclude?.find(item => item.id.startsWith(test.id))
IncludesExcluded(exc, test) == \E item \in exc : StartsWith(IdOf(item), IdOf(test))

\* the first while loop: pops the queue from its end until it is empty
RECURSIVE DrainQueue(_, _, _, _, _)
DrainQueue(t, exc, queue, list, queue2) ==
    IF Len(queue) = 0 THEN [list |-> list, queue2 |-> queue2]
    ELSE LET test == queue[Len(queue)]
             rest == SubSeq(queue, 1, Len(queue) - 1)
         IN  IF test \in exc
             THEN DrainQueue(t, exc, rest, list, queue2)
             ELSE IF IsTestCase(test) /\ ~IncludesExcluded(exc, test)
             THEN DrainQueue(t, exc, rest, Append(list, test), queue2 \o Children(t, test))
             ELSE IF Len(Children(t, test)) > 0
             THEN DrainQueue(t, exc, rest \o Children(t, test), list, queue2)
             ELSE DrainQueue(t, exc, rest, Append(list, test), queue2)

\* the second while loop stops one item short
RECURSIVE DrainQueue2_dropsLast(_, _, _)
DrainQueue2_dropsLast(exc, queue2, list) ==
    IF Len(queue2) <= 1 THEN list
    ELSE LET test == queue2[Len(queue2)]
             rest == SubSeq(queue2, 1, Len(queue2) - 1)
         IN  IF test \in exc
             THEN DrainQueue2_dropsLast(exc, rest, list)
             ELSE DrainQueue2_dropsLast(exc, rest, Append(list, test))

\* the second while loop
RECURSIVE DrainQueue2(_, _, _)
DrainQueue2(exc, queue2, list) ==
    IF Len(queue2) = 0 THEN list
    ELSE LET test == queue2[Len(queue2)]
             rest == SubSeq(queue2, 1, Len(queue2) - 1)
         IN  IF test \in exc
             THEN DrainQueue2(exc, rest, list)
             ELSE DrainQueue2(exc, rest, Append(list, test))

IsFiltered(inc, exc) == Len(inc) > 0 \/ Cardinality(exc) > 0

\* the arguments are taken from the list after the second loop
createTestLists_argsAfter(t, inc, exc) ==
    LET first == DrainQueue(t, exc, InitialQueue(t, inc), <<>>, <<>>)
        list == DrainQueue2(exc, first.queue2, first.list)
    IN  [testItems |-> list,
         testArgs  |-> IF IsFiltered(inc, exc) THEN [i \in DOMAIN list |-> IdOf(list[i])] ELSE <<>>]

createTestLists(t, inc, exc) ==
    LET first == DrainQueue(t, exc, InitialQueue(t, inc), <<>>, <<>>)
        argumentList == IF IsFiltered(inc, exc)
                        THEN [i \in DOMAIN first.list |-> IdOf(first.list[i])]
                        ELSE <<>>
    IN  [testItems |-> DrainQueue2(exc, first.queue2, first.list),
         testArgs  |-> argumentList]

(***************************************************************************)
(* The test run (vscode.TestRun): the calls made on it                     *)
(***************************************************************************)
NewTestRun ==
    [enqueued |-> [n \in Nodes |-> 0],
     started  |-> [n \in Nodes |-> 0],
     outcomes |-> [n \in Nodes |-> <<>>],    \* passed, failed, skipped, in order
     durations |-> [n \in Nodes |-> <<>>],   \* the durations passed() was given
     errored  |-> [n \in Nodes |-> 0],
     output   |-> <<>>,                      \* appendOutput calls
     ended    |-> 0]                         \* end() calls

RunEnqueued(tr, n) == [tr EXCEPT !.enqueued[n] = @ + 1]
RunStarted(tr, n) == [tr EXCEPT !.started[n] = @ + 1]
RunPassed(tr, n, duration) ==
    [tr EXCEPT !.outcomes[n] = Append(@, "passed"), !.durations[n] = Append(@, duration)]
RunFailed(tr, n) == [tr EXCEPT !.outcomes[n] = Append(@, "failed")]
RunSkipped(tr, n) == [tr EXCEPT !.outcomes[n] = Append(@, "skipped")]
RunErrored(tr, n) == [tr EXCEPT !.errored[n] = @ + 1]
RunAppendOutput(tr, what) == [tr EXCEPT !.output = Append(@, what)]
RunEnd(tr) == [tr EXCEPT !.ended = @ + 1]

(***************************************************************************)
(* Array helpers                                                           *)
(***************************************************************************)
\* Array.prototype.findIndex, 1-based and 0 when nothing is found; hits[i]
\* tells whether the predicate holds of the i-th element
FindIndex(hits) ==
    IF \E i \in DOMAIN hits : hits[i]
    THEN CHOOSE i \in DOMAIN hits : hits[i] /\ \A j \in 1..(i - 1) : ~hits[j]
    ELSE 0

\* list.splice(i, 1)
Splice(list, i) == SubSeq(list, 1, i - 1) \o SubSeq(list, i + 1, Len(list))

(***************************************************************************)
(* Output lines.  A line is the text the test binary prints, held as the   *)
(* parts the regular expressions capture: form is the shape of the line    *)
(* (started, passed, error, skipped, or other for a line no pattern        *)
(* matches), suite and func the two names, file the path of an error or    *)
(* skip line.  On Darwin suite is "Target.Class", elsewhere "Class".  form  *)
(* is the first pattern that matches; also is passed for a line that the   *)
(* passed pattern of the second loop of parseResultNonDarwin matches too;  *)
(* seconds is the number a passed line gives in "(<n> seconds)".           *)
(***************************************************************************)
Foo == <<"F", "o", "o">>
bar == <<"b", "a", "r">>
baz == <<"b", "a", "z">>

FileA == <<"pkg", "Tests", "A", "FooTests.swift">>
FileB == <<"pkg", "Tests", "B", "FooTests.swift">>
NoFile == <<>>

Line(form, suite, func, file) ==
    [form |-> form, suite |-> suite, func |-> func, file |-> file, also |-> "none", seconds |-> 0]

\* the seconds a passed line of the test binary gives, "passed (2 seconds)"
Seconds == 2

PassedLine(suite, func) == [Line("passed", suite, func, NoFile) EXCEPT !.seconds = Seconds]

\* "Test Case 'Foo.bar' started' passed (1 seconds)": the started pattern
\* captures Foo and bar, the passed pattern Foo and "bar' started"
StartedAlsoPassed == [Line("started", Foo, bar, NoFile) EXCEPT !.also = "passed"]

OtherLine == Line("other", <<>>, <<>>, NoFile)

SuiteA == <<"A", ".">> \o Foo
SuiteB == <<"B", ".">> \o Foo

DarwinLines ==
    {Line("started", SuiteA, bar, NoFile), PassedLine(SuiteA, bar),
     Line("error", SuiteA, bar, FileA), Line("skipped", SuiteA, bar, FileA),
     Line("started", SuiteB, bar, NoFile), PassedLine(SuiteB, bar),
     OtherLine}

LinuxLines ==
    {Line("started", Foo, bar, NoFile), PassedLine(Foo, bar),
     Line("error", Foo, bar, FileA), Line("error", Foo, bar, FileB),
     Line("skipped", Foo, bar, FileB),
     OtherLine}

\* "Test Case '-[A.Foo bar]' started.]' passed (1 seconds)": the started and
\* the passed pattern of parseResultDarwin both match
DarwinStartedAlsoPassed == [Line("started", SuiteA, bar, NoFile) EXCEPT !.also = "passed"]

MoreDarwinLines == DarwinLines \cup {DarwinStartedAlsoPassed}

\* the lines of another test, and a line that two patterns match
MoreLinuxLines == LinuxLines \cup {Line("started", Foo, baz, NoFile), StartedAlsoPassed}

\* the chunks of at most k lines
RECURSIVE SeqsUpTo(_, _)
SeqsUpTo(S, k) ==
    IF k = 0 THEN {<<>>}
    ELSE LET shorter == SeqsUpTo(S, k - 1)
         IN  shorter \cup {Append(s, x) : s \in {y \in shorter : Len(y) = k - 1}, x \in S}

Chunks(lines) == SeqsUpTo(lines, MaxLines) \ {<<>>}

\* `${match[1]}/${match[2]}`
TestName(line) == line.suite \o <<"/">> \o line.func

\* `${passedMatch[1]}/${passedMatch[2]}`: the name the passed pattern captures
PassedName(line) ==
    IF line.form = "passed" THEN TestName(line)
    ELSE TestName(line) \o <<"'", " ", "s", "t", "a", "r", "t", "e", "d">>

\* /^Test Case '(.*)\.(.*)' passed \((\d.*) seconds\)/.exec(line)
PassedMatch(line) == line.form = "passed" \/ line.also = "passed"

(***************************************************************************)
(* The package: folderContext.folder and swiftPackage.targets              *)
(***************************************************************************)
Folder == <<"pkg">>

Targets ==
    <<[name |-> <<"A">>, path |-> <<"Tests", "A">>, sources |-> {<<"FooTests.swift">>}],
      [name |-> <<"B">>, path |-> <<"Tests", "B">>, sources |-> {<<"FooTests.swift">>}]>>

\* path.join and path.relative on paths held as their components
PathJoin(a, b) == a \o b

RECURSIVE PathRelative(_, _)
PathRelative(from, to) ==
    IF Len(from) > 0 /\ Len(to) > 0 /\ Head(from) = Head(to)
    THEN PathRelative(Tail(from), Tail(to))
    ELSE [i \in 1..Len(from) |-> ".."] \o to

(***************************************************************************)
(* The parser state: what the parsers read and write                       *)
(***************************************************************************)
ParserState(items, current, tr) == [testItems |-> items, currentTestItem |-> current, testRun |-> tr]

(***************************************************************************)
(* parseResultDarwin                                                       *)
(***************************************************************************)
DarwinLine(s, line) ==
    LET testId == TestName(line)
        index == FindIndex([i \in DOMAIN s.testItems |-> IdOf(s.testItems[i]) = testId])
    IN  CASE line.form = "started" ->
                IF index # 0
                THEN [s EXCEPT !.testRun = RunStarted(@, s.testItems[index]),
                               !.currentTestItem = s.testItems[index]]
                ELSE s
          [] line.form = "passed" ->
                IF index # 0
                THEN [s EXCEPT !.testRun = RunPassed(@, s.testItems[index], line.seconds * 1000),
                               !.testItems = Splice(@, index),
                               !.currentTestItem = "none"]
                ELSE [s EXCEPT !.currentTestItem = "none"]
          [] line.form = "error" ->
                IF index # 0
                THEN [s EXCEPT !.testRun = RunFailed(@, s.testItems[index]),
                               !.testItems = Splice(@, index),
                               !.currentTestItem = "none"]
                ELSE [s EXCEPT !.currentTestItem = "none"]
          [] line.form = "skipped" ->
                IF index # 0
                THEN [s EXCEPT !.testRun = RunSkipped(@, s.testItems[index]),
                               !.testItems = Splice(@, index),
                               !.currentTestItem = "none"]
                ELSE [s EXCEPT !.currentTestItem = "none"]
          [] OTHER -> s

RECURSIVE parseResultDarwin(_, _)
parseResultDarwin(s, lines) ==
    IF Len(lines) = 0 THEN s
    ELSE parseResultDarwin(DarwinLine(s, Head(lines)), Tail(lines))

(***************************************************************************)
(* parseResultNonDarwin                                                    *)
(***************************************************************************)
\* the file name is not looked at: any item of that name is taken
isTestWithFilenameInTarget_anyTarget(testName, filename, item) ==
    EndsWith(IdOf(item), testName)

isTestWithFilenameInTarget(testName, filename, item) ==
    IF ~EndsWith(IdOf(item), testName) THEN FALSE
    ELSE IF ParentOf(item) = "none" \/ ParentOf(ParentOf(item)) = "none" THEN FALSE
    ELSE LET targetTestItem == ParentOf(ParentOf(item))
             target == FindIndex([i \in DOMAIN Targets |-> LabelOf(targetTestItem) = Targets[i].name])
         IN  IF target # 0
             THEN LET targetPath == PathJoin(Folder, Targets[target].path)
                      relativePath == PathRelative(targetPath, filename)
                  IN  relativePath \in Targets[target].sources
             ELSE FALSE

\* the index a failed or skipped line refers to: by file name, else by name alone
FailedTestIndex(items, line) ==
    LET testName == TestName(line)
        byFile == FindIndex([i \in DOMAIN items |-> isTestWithFilenameInTarget(testName, line.file, items[i])])
    IN  IF byFile # 0 THEN byFile
        ELSE FindIndex([i \in DOMAIN items |-> EndsWith(IdOf(items[i]), testName)])

\* the first loop: started, failed and skipped lines
NonDarwinLine1(s, line) ==
    CASE line.form = "started" ->
            LET index == FindIndex([i \in DOMAIN s.testItems |-> EndsWith(IdOf(s.testItems[i]), TestName(line))])
            IN  IF index # 0
                THEN [s EXCEPT !.testRun = RunStarted(@, s.testItems[index]),
                               !.currentTestItem = s.testItems[index]]
                ELSE s
      [] line.form = "error" ->
            LET index == FailedTestIndex(s.testItems, line)
            IN  IF index # 0
                THEN [s EXCEPT !.testRun = RunFailed(@, s.testItems[index]),
                               !.testItems = Splice(@, index),
                               !.currentTestItem = "none"]
                ELSE [s EXCEPT !.currentTestItem = "none"]
      [] line.form = "skipped" ->
            LET index == FailedTestIndex(s.testItems, line)
            IN  IF index # 0
                THEN [s EXCEPT !.testRun = RunSkipped(@, s.testItems[index]),
                               !.testItems = Splice(@, index),
                               !.currentTestItem = "none"]
                ELSE [s EXCEPT !.currentTestItem = "none"]
      [] OTHER -> s

\* the second loop: passed lines
NonDarwinLine2(s, line) ==
    CASE PassedMatch(line) ->
            LET index == FindIndex([i \in DOMAIN s.testItems |-> EndsWith(IdOf(s.testItems[i]), PassedName(line))])
            IN  IF index # 0
                THEN [s EXCEPT !.testRun = RunPassed(@, s.testItems[index], line.seconds),
                               !.testItems = Splice(@, index),
                               !.currentTestItem = "none"]
                ELSE [s EXCEPT !.currentTestItem = "none"]
      [] OTHER -> s

RECURSIVE NonDarwinLoop1(_, _)
NonDarwinLoop1(s, lines) ==
    IF Len(lines) = 0 THEN s
    ELSE NonDarwinLoop1(NonDarwinLine1(s, Head(lines)), Tail(lines))

RECURSIVE NonDarwinLoop2(_, _)
NonDarwinLoop2(s, lines) ==
    IF Len(lines) = 0 THEN s
    ELSE NonDarwinLoop2(NonDarwinLine2(s, Head(lines)), Tail(lines))

parseResultNonDarwin(s, lines) == NonDarwinLoop2(NonDarwinLoop1(s, lines), lines)

(***************************************************************************)
(* The write callback of the stream the child process writes to            *)
(***************************************************************************)
StreamWrite(s, chunk) ==
    LET echoed == [s EXCEPT !.testRun = RunAppendOutput(@, "chunk")]
    IN  IF platform = "darwin"
        THEN parseResultDarwin(echoed, chunk)
        ELSE parseResultNonDarwin(echoed, chunk)

PlatformLines == IF platform = "darwin" THEN DarwinLines ELSE LinuxLines

Current == ParserState(testItems, currentTestItem, testRun)

(***************************************************************************)
(* Requests                                                                *)
(***************************************************************************)
\* sequences of distinct nodes of t, at most k long
RECURSIVE DistinctSeqs(_, _)
DistinctSeqs(S, k) ==
    IF k = 0 THEN {<<>>}
    ELSE LET shorter == DistinctSeqs(S, k - 1)
         IN  shorter \cup {Append(s, n) : s \in {x \in shorter : Len(x) = k - 1},
                                          n \in S}

NoDup(s) == \A i, j \in DOMAIN s : i # j => s[i] # s[j]

Includes(t) == {s \in DistinctSeqs(t, MaxInclude) : NoDup(s)}
Excludes(t) == {e \in SUBSET t : Cardinality(e) <= MaxExclude}

\* what a rejected await hands to the catch block: nothing (reject()), an
\* Error, or the { error, stdout, stderr } of a child process
NoError == [defined |-> FALSE, hasError |-> FALSE, message |-> <<>>]
PlainError == [defined |-> TRUE, hasError |-> FALSE, message |-> <<"cannot", "start">>]
ExecFailed == [defined |-> TRUE, hasError |-> TRUE, message |-> <<"Command", "failed", ":", "swift">>]
ExecOther == [defined |-> TRUE, hasError |-> TRUE, message |-> <<"spawn", "swift", "ENOENT">>]

BuildErrors == {NoError, PlainError, ExecFailed, ExecOther}
ExecErrors == {ExecFailed, ExecOther}
DebugErrors == {PlainError}

\* nothing caught yet
NotCaught == [happened |-> FALSE, error |-> NoError, current |-> "none", before |-> NewTestRun]

\* the catch block runs on error, with this.currentTestItem = current and the
\* test run as it is in before
Caught(error, current, before) ==
    [happened |-> TRUE, error |-> error, current |-> current, before |-> before]

NoListeners == [start |-> FALSE, cancel |-> FALSE, terminate |-> FALSE]
NeverCancelled ==
    [when |-> "never", nchunks |-> 0, reads |-> 0, session |-> "none",
     state |-> ParserState(<<>>, "none", NewTestRun)]

(***************************************************************************)
(* The constructor                                                         *)
(***************************************************************************)
Constructor ==
    /\ pc = "new"
    /\ LET lists == createTestLists(tree, include, exclude)
       IN  /\ testItems' = lists.testItems
           /\ testArgs' = lists.testArgs
    /\ currentTestItem' = "none"
    /\ pc' = "constructed"
    /\ UNCHANGED <<requestVars, testRun, nchunks, cancelled, cancelAt, caught, exitCode, proc, debugVars>>

InitPlan ==
    /\ tree \in Trees
    /\ include \in Includes(tree)
    /\ exclude \in Excludes(tree)
    /\ pc = "new"
    /\ testItems = <<>>
    /\ testArgs = <<>>
    /\ platform \in {"darwin", "linux"}
    /\ currentTestItem = "none"
    /\ testRun = NewTestRun
    /\ nchunks = 0
    /\ shouldDebug = FALSE
    /\ cancelled = FALSE
    /\ cancelAt = NeverCancelled
    /\ exitCode = "pending"
    /\ proc = "none"
    /\ session = "none"
    /\ listeners = NoListeners
    /\ reads = 0
    /\ promise = "none"
    /\ removed = 0
    /\ caught = NotCaught

SpecPlan == InitPlan /\ [][Constructor]_vars

(***************************************************************************)
(* The parsers on the chunks of a run: the plan of a request, then the     *)
(* write callback on each chunk                                            *)
(***************************************************************************)
FullTree == Nodes \ {"A.Fo", "A.Foo/bar/x"}

\* the requests the parsers are run on: everything, the two methods named
\* bar in either order, and a test case together with one of its methods
ParseIncludes ==
    {<<>>, <<"A.Foo/bar", "B.Foo/bar">>, <<"B.Foo/bar", "A.Foo/bar">>, <<"A.Foo", "A.Foo/bar">>}

Write(chunk) ==
    /\ pc = "constructed"
    /\ nchunks < MaxChunks
    /\ LET s == StreamWrite(Current, chunk)
       IN  /\ testItems' = s.testItems
           /\ currentTestItem' = s.currentTestItem
           /\ testRun' = s.testRun
    /\ nchunks' = nchunks + 1
    /\ UNCHANGED <<requestVars, pc, testArgs, cancelled, cancelAt, caught, exitCode, proc, debugVars>>

InitParse ==
    /\ tree = FullTree
    /\ include \in ParseIncludes
    /\ exclude = {}
    /\ pc = "new"
    /\ testItems = <<>>
    /\ testArgs = <<>>
    /\ platform \in {"darwin", "linux"}
    /\ currentTestItem = "none"
    /\ testRun = NewTestRun
    /\ nchunks = 0
    /\ shouldDebug = FALSE
    /\ cancelled = FALSE
    /\ cancelAt = NeverCancelled
    /\ exitCode = "pending"
    /\ proc = "none"
    /\ session = "none"
    /\ listeners = NoListeners
    /\ reads = 0
    /\ promise = "none"
    /\ removed = 0
    /\ caught = NotCaught

NextParse ==
    \/ Constructor
    \/ \E chunk \in Chunks(PlatformLines) : Write(chunk)

SpecParse == InitParse /\ [][NextParse]_vars

(***************************************************************************)
(* runHandler: the build, then runSession or debugSession, then end()      *)
(***************************************************************************)
BuildResults == {"zero", "nonzero", "undefined"}

\* only an undefined exit code counts as a failure
BuildFailed_undefinedOnly(result) == result = "undefined"

\* exitCode === undefined || exitCode !== 0
BuildFailed(result) == result = "undefined" \/ result # "zero"

\* no error counts as a failed command
IsCommandFailed_never(error) == FALSE

\* execError && execError.error && execError.error.message.startsWith("Command failed")
IsCommandFailed(error) ==
    error.defined /\ error.hasError /\ StartsWith(error.message, <<"Command", "failed">>)

\* the last test is not reported enqueued
RECURSIVE setTestsEnqueued_butLast(_, _)
setTestsEnqueued_butLast(tr, items) ==
    IF Len(items) <= 1 THEN tr
    ELSE setTestsEnqueued_butLast(RunEnqueued(tr, Head(items)), Tail(items))

RECURSIVE setTestsEnqueued(_, _)
setTestsEnqueued(tr, items) ==
    IF Len(items) = 0 THEN tr
    ELSE setTestsEnqueued(RunEnqueued(tr, Head(items)), Tail(items))

\* the catch block without its return: end() is called again after it
CatchAndEnd_noReturn(tr, current, error) ==
    IF IsCommandFailed(error)
    THEN RunEnd(RunEnd(tr))
    ELSE LET reported == IF current # "none" THEN RunErrored(tr, current) ELSE tr
         IN  RunEnd(RunAppendOutput(reported, "error"))

\* the catch block reports nothing
CatchAndEnd_quiet(tr, current, error) == RunEnd(tr)

\* the catch block, and the end() after it when the block does not return
CatchAndEnd(tr, current, error) ==
    IF IsCommandFailed(error)
    THEN RunEnd(tr)
    ELSE LET reported == IF current # "none" THEN RunErrored(tr, current) ELSE tr
         IN  RunEnd(RunAppendOutput(reported, "error"))

\* the build failed: end the run
BuildFails(result) ==
    /\ pc = "constructed"
    /\ BuildFailed(result)
    /\ exitCode' = result
    /\ testRun' = RunEnd(testRun)
    /\ pc' = "done"
    /\ UNCHANGED <<requestVars, testItems, testArgs, currentTestItem, nchunks, cancelled,
                   cancelAt, caught, proc, debugVars>>

\* getBuildAllTask or queueOperation threw
BuildThrows(error) ==
    /\ pc = "constructed"
    /\ exitCode' = "threw"
    /\ testRun' = CatchAndEnd(testRun, currentTestItem, error)
    /\ caught' = Caught(error, currentTestItem, testRun)
    /\ pc' = "done"
    /\ UNCHANGED <<requestVars, testItems, testArgs, currentTestItem, nchunks, cancelled,
                   cancelAt, proc, debugVars>>

\* token.isCancellationRequested, tested by runSession before it starts the process
RunSessionCancelled == cancelled

\* the build succeeded, not debugging: setTestsEnqueued, then runSession up
\* to its await (config is what createLaunchConfigurationForTesting returns)
RunSession(result, config) ==
    /\ pc = "constructed"
    /\ ~BuildFailed(result)
    /\ ~shouldDebug
    /\ exitCode' = result
    /\ LET enqueued == setTestsEnqueued(testRun, testItems)
       IN  IF config = "null" \/ RunSessionCancelled
           THEN /\ testRun' = RunEnd(enqueued)
                /\ pc' = "done"
                /\ proc' = proc
           ELSE /\ testRun' = RunAppendOutput(enqueued, "banner")
                /\ pc' = "running"
                /\ proc' = "running"
    /\ UNCHANGED <<requestVars, testItems, testArgs, currentTestItem, nchunks, cancelled,
                   cancelAt, caught, debugVars>>

\* the process goes on writing after cancellation
ProcessWrites_always == TRUE

\* execFileStreamOutput: a cancelled process writes no further chunk
ProcessWrites == ~cancelled

\* the child process writes a chunk to the stream
StdoutChunk(chunk) ==
    /\ pc = "running"
    /\ proc = "running"
    /\ ProcessWrites
    /\ nchunks < MaxChunks
    /\ LET s == StreamWrite(Current, chunk)
       IN  /\ testItems' = s.testItems
           /\ currentTestItem' = s.currentTestItem
           /\ testRun' = s.testRun
    /\ nchunks' = nchunks + 1
    /\ UNCHANGED <<requestVars, pc, testArgs, cancelled, cancelAt, caught, exitCode, proc, debugVars>>

\* the child process ends: execFileStreamOutput resolves
ProcessExits ==
    /\ pc = "running"
    /\ proc = "running"
    /\ proc' = "exited"
    /\ testRun' = RunEnd(testRun)
    /\ pc' = "done"
    /\ UNCHANGED <<requestVars, testItems, testArgs, currentTestItem, nchunks, cancelled,
                   cancelAt, caught, exitCode, debugVars>>

\* the child process fails or is killed: execFileStreamOutput rejects
ProcessFails(error) ==
    /\ pc = "running"
    /\ proc = "running"
    /\ proc' = "exited"
    /\ testRun' = CatchAndEnd(testRun, currentTestItem, error)
    /\ caught' = Caught(error, currentTestItem, testRun)
    /\ pc' = "done"
    /\ UNCHANGED <<requestVars, testItems, testArgs, currentTestItem, nchunks, cancelled,
                   cancelAt, exitCode, debugVars>>

\* the user cancels the run
Cancel ==
    /\ pc \in {"constructed", "running", "starting", "debugging"}
    /\ ~cancelled
    /\ cancelled' = TRUE
    /\ cancelAt' = [when |-> pc, nchunks |-> nchunks, reads |-> reads, session |-> session,
                    state |-> Current]
    /\ UNCHANGED <<requestVars, pc, testItems, testArgs, currentTestItem, testRun, nchunks,
                   caught, exitCode, proc, debugVars>>

(***************************************************************************)
(* debugSession                                                            *)
(***************************************************************************)
\* the cancellation listener is left registered
DisposeAll_keepsCancel(subscriptions) ==
    [subscriptions EXCEPT !.start = FALSE, !.terminate = FALSE]

\* subscriptions.forEach(sub => sub.dispose())
DisposeAll(subscriptions) == [l \in DOMAIN subscriptions |-> FALSE]

\* the build succeeded, debugging: setTestsEnqueued, then debugSession up to
\* the call of startDebugging
DebugSession(result, config) ==
    /\ pc = "constructed"
    /\ ~BuildFailed(result)
    /\ shouldDebug
    /\ exitCode' = result
    /\ LET enqueued == setTestsEnqueued(testRun, testItems)
       IN  IF config = "null"
           THEN /\ testRun' = RunEnd(enqueued)
                /\ pc' = "done"
                /\ promise' = "returned"
                /\ listeners' = listeners
           ELSE /\ testRun' = enqueued
                /\ pc' = "starting"
                /\ listeners' = [NoListeners EXCEPT !.start = TRUE]
                /\ promise' = "pending"
    /\ UNCHANGED <<requestVars, testItems, testArgs, currentTestItem, nchunks, cancelled,
                   cancelAt, caught, proc, session, reads, removed>>

\* onDidStartDebugSession: the session of this run starts
SessionStarts ==
    /\ pc = "starting"
    /\ session = "none"
    /\ session' = "started"
    /\ listeners' = IF listeners.start THEN [listeners EXCEPT !.cancel = TRUE] ELSE listeners
    /\ UNCHANGED <<requestVars, pc, testItems, testArgs, currentTestItem, testRun, nchunks,
                   cancelled, cancelAt, caught, exitCode, proc, reads, promise, removed>>

\* startDebugging resolves with true: the banner, and the terminate listener
StartDebuggingStarted ==
    /\ pc = "starting"
    /\ session # "none"
    /\ testRun' = RunAppendOutput(testRun, "banner")
    /\ listeners' = [listeners EXCEPT !.terminate = TRUE]
    /\ pc' = "debugging"
    /\ UNCHANGED <<requestVars, testItems, testArgs, currentTestItem, nchunks, cancelled,
                   cancelAt, caught, exitCode, proc, session, reads, promise, removed>>

\* startDebugging resolves with false (reject()) or rejects (reject(reason))
StartDebuggingFails(error) ==
    /\ pc = "starting"
    /\ removed' = removed + 1
    /\ listeners' = DisposeAll(listeners)
    /\ promise' = "rejected"
    /\ testRun' = CatchAndEnd(testRun, currentTestItem, error)
    /\ caught' = Caught(error, currentTestItem, testRun)
    /\ pc' = "done"
    /\ UNCHANGED <<requestVars, testItems, testArgs, currentTestItem, nchunks, cancelled,
                   cancelAt, exitCode, proc, session, reads>>

\* the terminate handler does not test the token
ReadsBack_always == TRUE

\* !token.isCancellationRequested, tested by the terminate handler
ReadsBack == ~cancelled

\* the handler of onDidTerminateDebugSession, up to its await
TerminateHandler ==
    IF ReadsBack
    THEN /\ reads' = reads + 1
         /\ UNCHANGED <<pc, testRun, listeners, promise, removed>>
    ELSE /\ removed' = removed + 1
         /\ listeners' = DisposeAll(listeners)
         /\ IF promise = "pending"
            THEN promise' = "resolved" /\ testRun' = RunEnd(testRun) /\ pc' = "done"
            ELSE UNCHANGED <<promise, testRun, pc>>
         /\ reads' = reads

\* onDidTerminateDebugSession: the session of this run terminates
SessionTerminates ==
    /\ session = "started"
    /\ pc \in {"starting", "debugging"}
    /\ reads < MaxTerminates
    /\ session' = "terminated"
    /\ IF listeners.terminate
       THEN TerminateHandler
       ELSE UNCHANGED <<pc, testRun, listeners, promise, removed, reads>>
    /\ UNCHANGED <<requestVars, testItems, testArgs, currentTestItem, nchunks, cancelled,
                   cancelAt, caught, exitCode, proc>>

\* onDidTerminateDebugSession: some other debug session terminates
OtherSessionTerminates ==
    /\ listeners.terminate
    /\ reads < MaxTerminates
    /\ TerminateHandler
    /\ UNCHANGED <<requestVars, testItems, testArgs, currentTestItem, nchunks, cancelled,
                   cancelAt, caught, exitCode, proc, session>>

\* the readFile of a terminate handler completes with the content of the
\* output file: echo, parse, rm, dispose, resolve
ReadFileDone(content) ==
    /\ reads > 0
    /\ reads' = reads - 1
    /\ LET s == StreamWrite(Current, content)
       IN  /\ testItems' = s.testItems
           /\ currentTestItem' = s.currentTestItem
           /\ IF promise = "pending"
              THEN promise' = "resolved" /\ testRun' = RunEnd(s.testRun) /\ pc' = "done"
              ELSE testRun' = s.testRun /\ UNCHANGED <<promise, pc>>
    /\ nchunks' = nchunks + 1
    /\ removed' = removed + 1
    /\ listeners' = DisposeAll(listeners)
    /\ UNCHANGED <<requestVars, testArgs, cancelled, cancelAt, caught, exitCode, proc, session>>

\* the readFile of a terminate handler fails: dispose, resolve
ReadFileFails ==
    /\ reads > 0
    /\ reads' = reads - 1
    /\ listeners' = DisposeAll(listeners)
    /\ IF promise = "pending"
       THEN promise' = "resolved" /\ testRun' = RunEnd(testRun) /\ pc' = "done"
       ELSE UNCHANGED <<promise, testRun, pc>>
    /\ UNCHANGED <<requestVars, testItems, testArgs, currentTestItem, nchunks, cancelled,
                   cancelAt, caught, exitCode, proc, session, removed>>

(***************************************************************************)
(* A run: the constructor, then runHandler                                 *)
(***************************************************************************)
Init ==
    /\ tree = FullTree
    /\ include = <<>>
    /\ exclude = {}
    /\ pc = "new"
    /\ testItems = <<>>
    /\ testArgs = <<>>
    /\ platform \in {"darwin", "linux"}
    /\ currentTestItem = "none"
    /\ testRun = NewTestRun
    /\ nchunks = 0
    /\ shouldDebug \in BOOLEAN
    /\ cancelled = FALSE
    /\ cancelAt = NeverCancelled
    /\ exitCode = "pending"
    /\ proc = "none"
    /\ session = "none"
    /\ listeners = NoListeners
    /\ reads = 0
    /\ promise = "none"
    /\ removed = 0
    /\ caught = NotCaught

Next ==
    \/ Constructor
    \/ \E result \in BuildResults : BuildFails(result)
    \/ \E error \in BuildErrors : BuildThrows(error)
    \/ \E result \in BuildResults, config \in {"null", "config"} : RunSession(result, config)
    \/ \E chunk \in Chunks(PlatformLines) : StdoutChunk(chunk)
    \/ ProcessExits
    \/ \E error \in ExecErrors : ProcessFails(error)
    \/ Cancel
    \/ \E result \in BuildResults, config \in {"null", "config"} : DebugSession(result, config)
    \/ SessionStarts
    \/ StartDebuggingStarted
    \/ \E error \in {NoError} \cup DebugErrors : StartDebuggingFails(error)
    \/ SessionTerminates
    \/ OtherSessionTerminates
    \/ \E content \in Chunks(PlatformLines) : ReadFileDone(content)
    \/ ReadFileFails

Spec == Init /\ [][Next]_vars

\* what the host is bound to do: startDebugging settles, the debug session
\* of the run terminates, a readFile completes
Fairness ==
    /\ WF_vars(SessionStarts)
    /\ WF_vars(StartDebuggingStarted \/ \E error \in {NoError} \cup DebugErrors : StartDebuggingFails(error))
    /\ WF_vars(SessionTerminates)
    /\ WF_vars(ReadFileFails \/ \E content \in Chunks(PlatformLines) : ReadFileDone(content))

SpecFair == Spec /\ Fairness

(***************************************************************************)
(* Properties of the plan (SpecPlan)                                       *)
(***************************************************************************)
Leaves(t) == {n \in t : Len(Children(t, n)) = 0}
LeafEntries(t, list) == {i \in DOMAIN list : Len(Children(t, list[i])) = 0}

RECURSIVE IsDescendant(_, _)
IsDescendant(n, a) ==
    /\ ParentOf(n) # "none"
    /\ (ParentOf(n) = a \/ IsDescendant(ParentOf(n), a))

InPlan(lists, n) == n \in Range(lists.testItems) \/ IdOf(n) \in Range(lists.testArgs)

Unfiltered == Len(include) = 0 /\ exclude = {}

\* the children of test case nodes are test methods, which have no children
ThreeLevels(t) == \A n \in t : ParentOf(n) # "none" /\ IsTestCase(ParentOf(n)) => n \in Leaves(t)

\* C3 as claimed: for every tree, of any depth, with empty include and exclude
\* the pending list holds as many leaf nodes as the tree has
C3_AnyDepth ==
    pc = "constructed" /\ Unfiltered
        => Cardinality(LeafEntries(tree, testItems)) = Cardinality(Leaves(tree))

\* C3 amended: for every tree whose test methods have no children (target,
\* test case, method), with empty include and exclude, the leaf nodes of the
\* pending list are the leaf nodes of the tree, each once
C3_PlanCompleteness ==
    pc = "constructed" /\ Unfiltered /\ ThreeLevels(tree)
        => /\ Cardinality(LeafEntries(tree, testItems)) = Cardinality(Leaves(tree))
           /\ {testItems[i] : i \in LeafEntries(tree, testItems)} = Leaves(tree)

C3_Witness ==
    /\ pc = "constructed" /\ Unfiltered /\ ThreeLevels(tree)
    /\ Cardinality(Leaves(tree)) = 3
    /\ Cardinality(LeafEntries(tree, testItems)) = 3
    /\ Len(testItems) = 5

\* C4: an excluded test case has none of its descendants in the plan, for
\* every include; an excluded method is not in the plan and every other
\* method of its test case that the request selects still is
C4_ExclusionPropagation ==
    pc = "constructed" =>
        LET plan == [testItems |-> testItems, testArgs |-> testArgs]
        IN  /\ \A c \in exclude : IsTestCase(c) =>
                   \A m \in tree : IsDescendant(m, c) => ~InPlan(plan, m)
            /\ \A m \in exclude : ParentOf(m) # "none" /\ IsTestCase(ParentOf(m)) =>
                   /\ ~InPlan(plan, m)
                   /\ \A o \in tree \ exclude :
                          /\ ParentOf(o) = ParentOf(m)
                          /\ o \in Range(createTestLists(tree, include, exclude \ {m}).testItems)
                          => o \in Range(testItems)

\* C5: filterArgs is empty exactly when include and exclude are both empty
C5_FilterArgsEmptiness ==
    pc = "constructed" => (Len(testArgs) = 0 <=> Unfiltered)

\* what the first loop makes of a queue that holds the test case c alone
CaseAlone(c) == DrainQueue(tree, exclude, <<c>>, <<>>, <<>>)

\* c is appended as one unit and its children go to the second queue
AcceptedAsUnit(c) ==
    /\ CaseAlone(c).list = <<c>>
    /\ CaseAlone(c).queue2 = Children(tree, c)

\* c is not appended: its children are processed on the first queue instead
ExpandedOnQueue(c) ==
    /\ c \notin Range(CaseAlone(c).list)
    /\ CaseAlone(c) = DrainQueue(tree, exclude, Children(tree, c), <<>>, <<>>)
    /\ CaseAlone(c).queue2 = <<>>

\* C16 as claimed: a test case that is not excluded is accepted as one unit
\* exactly when no excluded id is a prefix of its id, and is otherwise not
\* appended but expanded into its children on the first queue
C16_ExcludedIdIsPrefix ==
    pc = "constructed" =>
        \A c \in tree \ exclude : IsTestCase(c) =>
            IF \A e \in exclude : ~StartsWith(IdOf(c), IdOf(e))
            THEN AcceptedAsUnit(c)
            ELSE ExpandedOnQueue(c)

\* C16 amended: a test case that is not excluded is accepted as one unit
\* exactly when its id is a prefix of no excluded id; otherwise it is
\* expanded into its children on the first queue and not appended, or, when
\* it has no children, appended as a leaf
C16_CaseAcceptance ==
    pc = "constructed" =>
        \A c \in tree \ exclude : IsTestCase(c) =>
            IF \A e \in exclude : ~StartsWith(IdOf(e), IdOf(c))
            THEN AcceptedAsUnit(c)
            ELSE IF Len(Children(tree, c)) > 0
            THEN ExpandedOnQueue(c)
            ELSE CaseAlone(c) = [list |-> <<c>>, queue2 |-> <<>>]

\* the included test case A.Foo has an excluded method: it is not in the
\* plan, its other method is, and the target A, though excluded, did not
\* keep it from being expanded
C16_Witness ==
    /\ pc = "constructed"
    /\ include = <<"A.Foo">> /\ exclude = {"A", "A.Foo/bar"}
    /\ "A.Foo/baz" \in tree
    /\ testItems = <<"A.Foo/baz">>
    /\ testArgs = <<IdOf("A.Foo/baz")>>

\* the entries of the second queue that are not excluded
Queue2Entries(queue2) == {i \in DOMAIN queue2 : queue2[i] \notin exclude}

\* C21: for a filtered request testArgs is the ids, in order, of the entries
\* the first loop appended, which are the first entries of testItems: the
\* entries the second loop appends add nothing to it; for an unfiltered
\* request testArgs is empty
C21_FilterArguments ==
    pc = "constructed" =>
        LET first == DrainQueue(tree, exclude, InitialQueue(tree, include), <<>>, <<>>)
        IN  IF Unfiltered
            THEN testArgs = <<>>
            ELSE /\ Len(testArgs) = Len(first.list)
                 /\ Len(testItems) = Len(testArgs) + Cardinality(Queue2Entries(first.queue2))
                 /\ \A i \in DOMAIN testArgs : testArgs[i] = IdOf(testItems[i])

\* the test case A.Foo is included: it alone is an argument, and its two
\* methods follow it in the pending list
C21_Witness ==
    /\ pc = "constructed"
    /\ include = <<"A.Foo">> /\ exclude = {}
    /\ testArgs = <<IdOf("A.Foo")>>
    /\ testItems = <<"A.Foo", "A.Foo/baz", "A.Foo/bar">>

(***************************************************************************)
(* Properties of the parsers (SpecParse)                                   *)
(***************************************************************************)
Outcomes(n) == testRun.outcomes[n]

\* C2: for every request and every sequence of chunks, under both grammars,
\* no test item is given two terminal outcomes (passed, failed, skipped)
C2_OneTerminalOutcome ==
    \A n \in Nodes : Len(Outcomes(n)) <= 1

\* C6: on Darwin, once the passed line of a test has been processed and the
\* test reported passed, the same line again changes nothing: the pending
\* list, the current item and the reported outcomes stay as they are
C6_PassedIdempotent ==
    pc = "constructed" /\ platform = "darwin" =>
        \A line \in {l \in DarwinLines : l.form = "passed"} :
            (\E n \in Nodes : IdOf(n) = TestName(line) /\ "passed" \in Range(Outcomes(n))) =>
                LET after == parseResultDarwin(Current, <<line>>)
                IN  /\ after.testItems = testItems
                    /\ after.currentTestItem = currentTestItem
                    /\ after.testRun = testRun

FirstIndexOf(list, n) == FindIndex([i \in DOMAIN list |-> list[i] = n])

\* C7: on Linux, with A.Foo/bar and B.Foo/bar both pending, in either order,
\* an error line for Foo.bar in a source file of target B reports B.Foo/bar
\* failed and removes it, and nothing else: A.Foo/bar stays pending, with no
\* event
C7_Disambiguation ==
    /\ pc = "constructed" /\ platform = "linux"
    /\ "A.Foo/bar" \in Range(testItems) /\ "B.Foo/bar" \in Range(testItems)
    => LET after == parseResultNonDarwin(Current, <<Line("error", Foo, bar, FileB)>>)
       IN  /\ after.testRun = RunFailed(testRun, "B.Foo/bar")
           /\ after.testItems = Splice(testItems, FirstIndexOf(testItems, "B.Foo/bar"))
           /\ "A.Foo/bar" \in Range(after.testItems)

\* B.Foo/bar alone was reported failed by the first chunk, though A.Foo/bar
\* came before it in the pending list
C7_Witness ==
    /\ platform = "linux" /\ include = <<>> /\ nchunks = 1
    /\ Outcomes("B.Foo/bar") = <<"failed">>
    /\ Outcomes("A.Foo/bar") = <<>>
    /\ testRun.started["A.Foo/bar"] = 0
    /\ testItems = <<"B.Foo", "A.Foo", "A.Foo/baz", "A.Foo/bar">>

\* C8: on Linux, a test reported failed is never reported passed, and failed
\* is the last outcome recorded for it
C8_PassAfterFail ==
    platform = "linux" =>
        \A n \in Nodes : "failed" \in Range(Outcomes(n)) =>
            /\ "passed" \notin Range(Outcomes(n))
            /\ Outcomes(n)[Len(Outcomes(n))] = "failed"

\* the lines the parsers are applied to in the properties below
ClaimLines == IF platform = "darwin" THEN MoreDarwinLines ELSE MoreLinuxLines

\* the parser of the platform on a chunk
Parse(s, chunk) ==
    IF platform = "darwin" THEN parseResultDarwin(s, chunk) ELSE parseResultNonDarwin(s, chunk)

\* the last line of the chunk of one of the forms, 0 when there is none
LastOf(chunk, forms) ==
    IF \E i \in DOMAIN chunk : chunk[i].form \in forms
    THEN CHOOSE i \in DOMAIN chunk :
             /\ chunk[i].form \in forms
             /\ \A j \in DOMAIN chunk : j > i => chunk[j].form \notin forms
    ELSE 0

Terminal == {"passed", "error", "skipped"}

\* item is the test that the started line names
NamedBy(item, line) ==
    /\ item # "none"
    /\ IF platform = "darwin"
       THEN IdOf(item) = TestName(line)
       ELSE EndsWith(IdOf(item), TestName(line))

\* C17: under both grammars, after a chunk the current item is the test
\* named by the last started line of the chunk when no passed, failed or
\* skipped line follows it, is empty when the chunk has such a line with no
\* started line after it, and is what it was when the chunk has neither
C17_CurrentItemTracking ==
    pc = "constructed" =>
        \A chunk \in Chunks(ClaimLines) :
            LET after == Parse(Current, chunk)
                started == LastOf(chunk, {"started"})
                terminal == LastOf(chunk, Terminal)
            IN  IF started > terminal
                THEN NamedBy(after.currentTestItem, chunk[started])
                ELSE IF terminal > 0
                THEN after.currentTestItem = "none"
                ELSE after.currentTestItem = currentTestItem

\* the write callback on one chunk after the other
RECURSIVE WriteAll(_, _)
WriteAll(s, chunks) ==
    IF Len(chunks) = 0 THEN s
    ELSE WriteAll(StreamWrite(s, Head(chunks)), Tail(chunks))

\* the ways the output <<first, second>> reaches the parser: in one chunk, or
\* in two
Splits(first, second) == {<<<<first, second>>>>, <<<<first>>, <<second>>>>}

\* the passed line of Foo.bar, and its error line in the sources of a target
PassedBar == Line("passed", Foo, bar, NoFile)
ErrorBarIn(target) == Line("error", Foo, bar, IF target = "A" THEN FileA ELSE FileB)

\* C18: on Linux, with A.Foo/bar and B.Foo/bar pending in either order, when
\* one of them passes and the other fails with an error line in a source
\* file of its own target, the one whose target owns the file is reported
\* failed and the other passed, whatever the order of the two lines and
\* however the output is split into chunks
C18_AcrossChunks ==
    /\ pc = "constructed" /\ platform = "linux" /\ nchunks = 0
    /\ "A.Foo/bar" \in Range(testItems) /\ "B.Foo/bar" \in Range(testItems)
    => \A failing \in {"A", "B"} :
           \A chunks \in Splits(PassedBar, ErrorBarIn(failing)) \cup Splits(ErrorBarIn(failing), PassedBar) :
               LET after == WriteAll(Current, chunks)
                   failed == IF failing = "A" THEN "A.Foo/bar" ELSE "B.Foo/bar"
                   passed == IF failing = "A" THEN "B.Foo/bar" ELSE "A.Foo/bar"
               IN  /\ after.testRun.outcomes[failed] = <<"failed">>
                   /\ after.testRun.outcomes[passed] = <<"passed">>

\* what the handler of the first pattern that matches the line does, alone
FirstMatchOnly(s, line) ==
    IF platform = "darwin" THEN DarwinLine(s, line)
    ELSE IF line.form = "passed" THEN NonDarwinLine2(s, line)
    ELSE NonDarwinLine1(s, line)

\* a line that no pattern matches changes nothing
UnmatchedIgnored ==
    pc = "constructed" =>
        \A line \in ClaimLines : line.form = "other" => Parse(Current, <<line>>) = Current

\* C19: under both grammars a line that no pattern matches reports nothing
\* and leaves the pending list and the current item as they are, and a line
\* that matches is handled by the first pattern that matches it, and by no
\* other
C19_UnmatchedLines ==
    /\ UnmatchedIgnored
    /\ pc = "constructed" =>
           \A line \in ClaimLines :
               line.form # "other" => Parse(Current, <<line>>) = FirstMatchOnly(Current, line)

\* the index of the pending test a Linux passed line is matched with
PassedIndex(line) ==
    FindIndex([i \in DOMAIN testItems |-> EndsWith(IdOf(testItems[i]), TestName(line))])

\* C22: on Linux a passed line "(s seconds)" that matches a pending test
\* reports it passed with a duration of s times 1000 milliseconds, as on
\* Darwin, and removes it from the pending list
C22_DurationMilliseconds ==
    pc = "constructed" /\ platform = "linux" =>
        \A line \in {l \in LinuxLines : l.form = "passed"} :
            PassedIndex(line) # 0 =>
                LET item == testItems[PassedIndex(line)]
                    after == parseResultNonDarwin(Current, <<line>>)
                IN  /\ after.testRun.outcomes[item] = Append(testRun.outcomes[item], "passed")
                    /\ after.testRun.durations[item] = Append(testRun.durations[item], line.seconds * 1000)
                    /\ after.testItems = Splice(testItems, PassedIndex(line))

\* the current item, when there is one, is in the pending list
CurrentInList == currentTestItem # "none" => currentTestItem \in Range(testItems)

\* C26: under both grammars the current item, when there is one, is an entry
\* of the pending list that has been reported started and has no passed,
\* failed or skipped outcome, so that an error reported on it does not land
\* on a test that has an outcome
C26_CurrentIsPending ==
    /\ CurrentInList
    /\ currentTestItem # "none" =>
           /\ testRun.started[currentTestItem] > 0
           /\ testRun.outcomes[currentTestItem] = <<>>

\* the lines of a test of class oo, a name that the class name Foo ends with
oo == <<"o", "o">>

ShortClassLines ==
    {Line("started", oo, bar, NoFile), PassedLine(oo, bar),
     Line("error", oo, bar, FileA), Line("skipped", oo, bar, FileA)}

\* the first position of c in s, Len(s) + 1 when there is none
IndexOf(s, c) ==
    CHOOSE i \in 1..(Len(s) + 1) :
        /\ i = Len(s) + 1 \/ s[i] = c
        /\ \A j \in 1..(i - 1) : s[j] # c

\* the components of the id "<target>.<class>/<method>" of a test
ClassOf(n) == SubSeq(IdOf(n), IndexOf(IdOf(n), ".") + 1, IndexOf(IdOf(n), "/") - 1)
MethodOf(n) == SubSeq(IdOf(n), IndexOf(IdOf(n), "/") + 1, Len(IdOf(n)))

\* the tests that a chunk of one line is attributed to: reported on or made
\* the current item
Attributed(after) ==
    {n \in Nodes : \/ after.testRun.started[n] # testRun.started[n]
                   \/ after.testRun.outcomes[n] # testRun.outcomes[n]
                   \/ after.currentTestItem = n /\ currentTestItem # n}

\* C28: on Linux a started, failed, skipped or passed line for
\* <class>.<method> is attributed only to a pending test whose class is
\* exactly <class> and whose method is exactly <method>, never to a test
\* whose class name only ends with <class>, nor to a test case
C28_NameBoundaries ==
    platform = "linux" =>
        \A line \in MoreLinuxLines \cup ShortClassLines :
            \A n \in Attributed(parseResultNonDarwin(Current, <<line>>)) :
                /\ n \in Range(testItems)
                /\ ~IsTestCase(n)
                /\ ClassOf(n) = line.suite
                /\ MethodOf(n) = line.func

(***************************************************************************)
(* Properties of a run (Spec)                                              *)
(***************************************************************************)
NoTestEvent(tr) ==
    \A n \in Nodes : tr.started[n] = 0 /\ tr.outcomes[n] = <<>> /\ tr.errored[n] = 0

\* C1: whatever the build does, whenever the run is cancelled and whatever
\* runSession or debugSession throws, end() is called exactly once: never
\* twice, and once when runHandler has returned
C1_EndExactlyOnce ==
    /\ testRun.ended <= 1
    /\ pc = "done" => testRun.ended = 1

\* a cancelled run that failed with an error the handler reports has ended, once
C1_Witness ==
    /\ pc = "done" /\ cancelled /\ testRun.ended = 1
    /\ "error" \in Range(testRun.output)
    /\ \E n \in Nodes : testRun.errored[n] = 1

\* C9 as claimed: when the run is cancelled after the build and before any
\* chunk of output has been parsed, no test is reported started, passed,
\* failed, skipped or errored, on the streamed and on the debug path
C9_CancelBeforeParse ==
    cancelled /\ exitCode = "zero" /\ cancelAt.nchunks = 0 => NoTestEvent(testRun)

\* C9 amended: the same, when on the debug path no terminate handler had
\* already tested the token and begun to read the output file; and when the
\* run has ended every entry of the plan has been reported enqueued
C9_CancelBeforeOutput ==
    cancelled /\ exitCode = "zero" /\ cancelAt.nchunks = 0 /\ cancelAt.reads = 0
        => /\ NoTestEvent(testRun)
           /\ pc = "done" => \A i \in DOMAIN testItems : testRun.enqueued[testItems[i]] > 0

\* a debug run cancelled while the session was running has ended
C9_Witness ==
    /\ pc = "done" /\ shouldDebug /\ cancelled /\ exitCode = "zero"
    /\ cancelAt.when = "debugging" /\ cancelAt.reads = 0
    /\ session = "terminated"
    /\ promise = "resolved"
    /\ Len(testItems) = 5

\* C10: when the build returns a non-zero exit code or undefined the run has
\* ended and nothing else was reported: nothing enqueued, no test event, no
\* output, no process and no debug session started, end() called
C10_BuildFailure ==
    exitCode \in {"nonzero", "undefined"}
        => /\ pc = "done"
           /\ testRun = RunEnd(NewTestRun)
           /\ proc = "none" /\ session = "none" /\ promise = "none"

C10_Witness ==
    /\ exitCode = "nonzero" /\ pc = "done" /\ testRun.ended = 1
    /\ Len(testItems) = 5

\* the errors whose message does not start with "Command failed", and
\* reject() with no error
Unclassified == {NoError, PlainError, ExecOther}

\* C11: when runSession or debugSession throws an error that is not a failed
\* command, the current test item, if there is one, is reported errored once
\* and no other item is, the error is appended to the output, no test is
\* reported started, passed, failed or skipped by the handler, and the run
\* has ended, once
C11_UnclassifiedException ==
    caught.happened /\ exitCode = "zero" /\ caught.error \in Unclassified
        => /\ \A n \in Nodes :
                  testRun.errored[n] = caught.before.errored[n] + (IF n = caught.current THEN 1 ELSE 0)
           /\ testRun.output = Append(caught.before.output, "error")
           /\ testRun.outcomes = caught.before.outcomes
           /\ testRun.started = caught.before.started
           /\ testRun.enqueued = caught.before.enqueued
           /\ testRun.ended = 1 /\ caught.before.ended = 0
           /\ pc = "done"

\* the process failed to run while A.Foo/bar was the current item, with other
\* tests pending: A.Foo/bar alone is reported errored
C11_Witness ==
    /\ caught.happened /\ exitCode = "zero" /\ caught.error = ExecOther
    /\ caught.current = "A.Foo/bar"
    /\ testRun.errored["A.Foo/bar"] = 1
    /\ Len(testItems) > 1
    /\ testRun.ended = 1

\* C12: when runSession or debugSession throws an error whose message starts
\* with "Command failed", no item is reported errored, even when there is a
\* current item, nothing is appended to the output, and the run has ended,
\* once
C12_CommandFailed ==
    /\ caught.happened /\ exitCode = "zero"
    /\ caught.error.defined /\ caught.error.hasError
    /\ StartsWith(caught.error.message, <<"Command", "failed">>)
    => /\ testRun.errored = caught.before.errored
       /\ testRun.output = caught.before.output
       /\ testRun.outcomes = caught.before.outcomes
       /\ testRun.started = caught.before.started
       /\ testRun.ended = 1 /\ caught.before.ended = 0
       /\ pc = "done"

\* the command failed while A.Foo/bar was the current item
C12_Witness ==
    /\ caught.happened /\ exitCode = "zero" /\ caught.error = ExecFailed
    /\ caught.current = "A.Foo/bar"
    /\ testRun.started["A.Foo/bar"] = 1
    /\ NoTestEvent([testRun EXCEPT !.started = NewTestRun.started])
    /\ testRun.output = <<"banner", "chunk">>
    /\ testRun.ended = 1

\* C14: once the run is cancelled while the process is running, the pending
\* list and the current item stay as the parser left them, no further chunk
\* is parsed, no test is reported started, passed, failed or skipped, and
\* when the run has ended it has ended once and every pending test was
\* enqueued and has no outcome; the only report that can follow is the
\* errored() of the current item when the process fails with an error that
\* is not a failed command (C11)
C14_CancelMidStream ==
    cancelled /\ cancelAt.when = "running"
        => /\ testItems = cancelAt.state.testItems
           /\ currentTestItem = cancelAt.state.currentTestItem
           /\ nchunks = cancelAt.nchunks
           /\ testRun.started = cancelAt.state.testRun.started
           /\ testRun.outcomes = cancelAt.state.testRun.outcomes
           /\ testRun.enqueued = cancelAt.state.testRun.enqueued
           /\ \A n \in Nodes :
                  testRun.errored[n] # 0 =>
                      caught.happened /\ caught.error \in Unclassified /\ n = caught.current
           /\ pc = "done" =>
                  /\ testRun.ended = 1
                  /\ \A i \in DOMAIN testItems :
                         /\ testRun.enqueued[testItems[i]] = 1
                         /\ testRun.outcomes[testItems[i]] = <<>>

\* cancelled after a chunk that reported one test and started another: the
\* run has ended with the one outcome and the started test still pending
C14_Witness ==
    /\ cancelled /\ cancelAt.when = "running" /\ cancelAt.nchunks = 1
    /\ pc = "done" /\ proc = "exited"
    /\ currentTestItem # "none" /\ currentTestItem \in Range(testItems)
    /\ testRun.started[currentTestItem] = 1
    /\ \E n \in Nodes : Len(testRun.outcomes[n]) = 1
    /\ Len(testItems) = 4

\* nothing is reported and neither step has begun while the build is pending
BuildFirst ==
    exitCode = "pending"
        => /\ testRun = NewTestRun /\ nchunks = 0
           /\ proc = "none" /\ session = "none" /\ promise = "none"

\* on the streamed path end() is called only when the process has finished
ProcessBeforeEnd ==
    testRun.ended > 0 /\ proc # "none" => proc = "exited"

\* on the debug path the output file is read and parsed, and the promise
\* resolved, only when the debug session of this run has terminated
SessionBeforeEnd ==
    shouldDebug /\ (reads > 0 \/ nchunks > 0 \/ promise = "resolved") => session = "terminated"

\* C15: the build completes before anything is reported and before the run
\* or debug step starts, and end() is not called before the process has
\* finished or the debug session of this run has terminated: the termination
\* of another debug session neither ends the run nor starts the parse
C15_Sequencing ==
    BuildFirst /\ ProcessBeforeEnd /\ SessionBeforeEnd

\* C20: when the promise of a debug run that had a launch configuration is
\* settled, the removal of the output file has been requested, whether the
\* session failed to start, the start was rejected or the session
\* terminated, cancelled or not, read back or not; and a failed read does
\* not make the run fail: no error is caught when the promise resolved
C20_TempFileCleanup ==
    /\ promise \in {"resolved", "rejected"} => removed >= 1
    /\ promise = "resolved" => ~caught.happened

\* the appendOutput calls that echoed a chunk or the output file
Echoes(tr) == Cardinality({i \in DOMAIN tr.output : tr.output[i] = "chunk"})

\* cancellation was requested before the debug session of the run terminated
CancelledBeforeTerminate == cancelled /\ cancelAt.session # "terminated"

\* C23: in a debug run, when cancellation was requested by the time the
\* session terminates the output file is not echoed and not parsed, and no
\* test is reported started, passed, failed or skipped; when it was not, the
\* file is echoed once and parsed once
C23_DebugCancellation ==
    shouldDebug =>
        /\ CancelledBeforeTerminate =>
               /\ Echoes(testRun) = 0 /\ nchunks = 0
               /\ \A n \in Nodes : testRun.started[n] = 0 /\ testRun.outcomes[n] = <<>>
        /\ Echoes(testRun) <= 1 /\ nchunks <= 1
        /\ (~cancelled /\ session = "terminated" /\ promise = "resolved" /\ reads = 0 /\ removed >= 1)
               => Echoes(testRun) = 1 /\ nchunks = 1

\* the plan the constructor made
Plan == createTestLists(tree, include, exclude).testItems

\* n has been reported started, passed, failed, skipped or errored
Reported(n) ==
    testRun.started[n] > 0 \/ testRun.outcomes[n] # <<>> \/ testRun.errored[n] > 0

\* C24: once the build has succeeded every entry of the plan has been
\* reported enqueued, before the process or the debug session is started, so
\* a test reported started, passed, failed, skipped or errored has been
\* reported enqueued before
C24_EnqueuedFirst ==
    /\ exitCode = "zero" => \A i \in DOMAIN Plan : testRun.enqueued[Plan[i]] >= 1
    /\ (proc # "none" \/ promise # "none" \/ session # "none")
           => exitCode = "zero" /\ \A i \in DOMAIN Plan : testRun.enqueued[Plan[i]] >= 1
    /\ \A n \in Nodes : Reported(n) => testRun.enqueued[n] >= 1

\* the last entry of the plan was reported started and passed, another one
\* errored, and all five entries enqueued once
C24_Witness ==
    /\ exitCode = "zero" /\ Len(Plan) = 5
    /\ testRun.outcomes[Plan[5]] = <<"passed">>
    /\ testRun.started[Plan[5]] = 1
    /\ \E n \in Nodes : testRun.errored[n] = 1
    /\ \A i \in DOMAIN Plan : testRun.enqueued[Plan[i]] = 1

\* C25: once the promise of debugSession has resolved or rejected, the
\* start listener, the cancellation listener and the terminate listener of
\* the run are disposed, on every path
C25_ListenerRelease ==
    promise \in {"returned", "resolved", "rejected"} => listeners = NoListeners

\* the session started and terminated, the file was read back and the
\* promise resolved: the three listeners, all registered, are disposed
C25_Witness ==
    /\ promise = "resolved" /\ session = "terminated"
    /\ nchunks = 1 /\ removed = 1 /\ reads = 0
    /\ listeners = NoListeners

\* C27: once end() has been called the run calls nothing more on the test
\* run: no appendOutput, started, passed, failed, skipped or errored, also
\* when terminate events fire more than once or while the output file is
\* being read
C27_NothingAfterEnd ==
    [][testRun.ended > 0 => testRun' = testRun]_vars

(***************************************************************************)
(* Properties of a debug run under fairness (SpecFair)                     *)
(***************************************************************************)
\* C13: the promise that debugSession returns is settled in the end, on
\* every path, also when the session terminates soon after it started
C13_DebugResolves ==
    (promise = "pending") ~> (promise \in {"resolved", "rejected"})

====
